---- MODULE Spec2Model ----
(***************************************************************************)
(* Model of backend/server.py: the location-ingest handler                 *)
(* (create_location) with its geofence evaluation, alert recording and     *)
(* live push through ConnectionManager, together with create_geofence,     *)
(* mark_alert_read and the websocket endpoint.                             *)
(*                                                                         *)
(* Every handler is a coroutine; other handlers run only while it is       *)
(* suspended at an await.  Each action below is the code between two       *)
(* awaits together with the effect of the awaited store or channel call.   *)
(*                                                                         *)
(* Coordinates are integers counting grid steps of 1/1000 degree, so the   *)
(* comparison  sqrt(dlat^2 + dlon^2) * 111000 <= radius  is evaluated      *)
(* exactly on squares (no floating-point rounding is modelled).            *)
(***************************************************************************)
EXTENDS Integers, Sequences, FiniteSets, TLC

\* ---------------------------------------------------------------- bounds
MaxIngests == 2       \* create_location calls per behaviour
MaxNewFences == 2     \* successful create_geofence calls per behaviour
MaxConnects == 1      \* websocket connections opened per behaviour
MaxMarks == 2         \* mark_alert_read calls per behaviour
MaxChannels == 3      \* websocket connections opened where parents reconnect
MaxUsageCalls == 2    \* create_app_usage calls per behaviour

\* ------------------------------------------------------ program constants
ListLimit == 100            \* .to_list(100) of the geofence query
DefaultLimit == 100         \* get_teen_locations(..., limit: int = 100, ...)
MetersPerDegree == 111000   \* "* 111000  # rough meters"
MetersPerGrid == MetersPerDegree \div 1000   \* one coordinate step is 1/1000 degree

Parents == {"p1", "p2"}
Points == {<<0, 0>>, <<1, 0>>}

VARIABLES
    teens,               \* db.teens: sequence of teen documents
    locations,           \* db.locations: sequence of location documents
    geofences,           \* db.geofences: sequence of geofence documents (natural order)
    alerts,              \* db.alerts: sequence of alert documents
    active_connections,  \* manager.active_connections: parent id -> websocket (0 = no entry)
    sockets,             \* websocket connections ever accepted: [parent_id, open]
    sends,               \* history of WebSocket.send_text calls
    ingest,              \* the create_location calls: position and locals of each
    last,                \* response of the most recent create_geofence / mark_alert_read
    marks,               \* number of mark_alert_read calls so far
    app_usage,           \* db.app_usage: sequence of app usage documents
    usage                \* the create_app_usage calls: position and locals of each

vars == <<teens, locations, geofences, alerts, active_connections, sockets, sends,
          ingest, last, marks, app_usage, usage>>

Min(a, b) == IF a <= b THEN a ELSE b

Abs(a) == IF a >= 0 THEN a ELSE -a

\* ---------------------------------------------------------------- documents
None == [id |-> 0, name |-> "", parent_id |-> ""]

Teen(id, name, parent_id) == [id |-> id, name |-> name, parent_id |-> parent_id]

Geofence(id, teen_id, name, latitude, longitude, radius, type, on_enter, on_exit) ==
    [id |-> id, teen_id |-> teen_id, name |-> name, latitude |-> latitude,
     longitude |-> longitude, radius |-> radius, type |-> type,
     notify_on_enter |-> on_enter, notify_on_exit |-> on_exit]

\* Location(...): timestamp defaults to datetime.utcnow() at construction
Location(id, teen_id, latitude, longitude, timestamp) ==
    [id |-> id, teen_id |-> teen_id, latitude |-> latitude, longitude |-> longitude,
     timestamp |-> timestamp]

\* Alert(...): is_read defaults to False
Alert(id, parent_id, teen_id, type, message) ==
    [id |-> id, parent_id |-> parent_id, teen_id |-> teen_id, type |-> type,
     message |-> message, is_read |-> FALSE]

\* the registered teens: no handler of the model adds or removes a teen
RegisteredTeens == <<Teen(1, "Ann", "p1"), Teen(2, "Bob", "p2")>>
UnknownTeen == Len(RegisteredTeens) + 1    \* an id no teen document has
TeenIdInputs == 1..UnknownTeen

\* GeofenceCreate bodies posted by parents
GeofenceInputs ==
    { [name |-> "Home", latitude |-> 0, longitude |-> 0, radius |-> 111,
       type |-> "safe", notify_on_enter |-> TRUE, notify_on_exit |-> TRUE],
      [name |-> "Mall", latitude |-> 1, longitude |-> 0, radius |-> 50,
       type |-> "restricted", notify_on_enter |-> FALSE, notify_on_exit |-> FALSE] }

\* a teen that already has ListLimit - 1 geofences, none near the samples
Prefill ==
    [n \in 1..(ListLimit - 1) |->
        Geofence(n, 1, "Far", 50, 50, 1, "safe", TRUE, TRUE)]

\* ---------------------------------------------------------------- queries
\* db.teens.find_one({"id": teen_id})
find_one_teen(teen_id) ==
    IF \E n \in DOMAIN teens : teens[n].id = teen_id
    THEN teens[CHOOSE n \in DOMAIN teens :
                 /\ teens[n].id = teen_id
                 /\ \A m \in DOMAIN teens : teens[m].id = teen_id => n <= m]
    ELSE None

\* db.teens.find_one({"id": teen_id, "parent_id": parent_id})
find_one_teen_of(teen_id, parent_id) ==
    IF \E n \in DOMAIN teens : teens[n].id = teen_id /\ teens[n].parent_id = parent_id
    THEN teens[CHOOSE n \in DOMAIN teens :
                 teens[n].id = teen_id /\ teens[n].parent_id = parent_id]
    ELSE None

OfTeen(teen_id, g) == g.teen_id = teen_id

\* db.geofences.find({"teen_id": teen_id}).to_list(100)
find_geofences(teen_id) ==
    LET all == SelectSeq(geofences, LAMBDA g : OfTeen(teen_id, g))
    IN  SubSeq(all, 1, Min(Len(all), ListLimit))

\* ---------------------------------------------------------------- matcher
\* (dlat ** 2 + dlon ** 2), in grid steps squared
DistSq(lat1, lon1, lat2, lon2) ==
    (lat1 - lat2) * (lat1 - lat2) + (lon1 - lon2) * (lon1 - lon2)

\* x ** 0.5 rounded up to a whole number: the least r in lo..hi with r * r >= n
RECURSIVE SqrtUp(_, _, _)
SqrtUp(n, lo, hi) ==
    IF lo >= hi THEN hi
    ELSE LET mid == (lo + hi) \div 2
         IN  IF mid * mid >= n THEN SqrtUp(n, lo, mid) ELSE SqrtUp(n, mid + 1, hi)

\* a distance that adds the coordinate differences instead of their squares
distance_signed(lat1, lon1, lat2, lon2) ==
    ((lat1 - lat2) + (lon1 - lon2)) * MetersPerGrid

\* distance = ((location.latitude - geofence.latitude) ** 2 + (location.longitude -
\* geofence.longitude) ** 2) ** 0.5 * 111000, in metres rounded up to a whole metre
\* (for a whole number of metres r, distance <= r exactly when the rounded value is)
distance(lat1, lon1, lat2, lon2) ==
    LET n == DistSq(lat1, lon1, lat2, lon2) * MetersPerGrid * MetersPerGrid
    IN  SqrtUp(n, 0, (Abs(lat1 - lat2) + Abs(lon1 - lon2)) * MetersPerGrid)

\* the comparison without "* 111000\": a distance in degrees against metres
Within_degrees(latitude, longitude, geofence) ==
    /\ geofence.radius >= 0
    /\ (DistSq(latitude, longitude, geofence.latitude, geofence.longitude)
          + (1000 * 1000 - 1)) \div (1000 * 1000) <= geofence.radius * geofence.radius

\* a stateful comparison that fires on entry only: within the radius while the
\* teen has at most one stored sample, the current one, within it
Within_first_entry(latitude, longitude, geofence) ==
    /\ geofence.radius >= 0
    /\ DistSq(latitude, longitude, geofence.latitude, geofence.longitude)
         * MetersPerGrid * MetersPerGrid <= geofence.radius * geofence.radius
    /\ Cardinality({n \in DOMAIN locations :
                      /\ locations[n].teen_id = geofence.teen_id
                      /\ DistSq(locations[n].latitude, locations[n].longitude,
                                geofence.latitude, geofence.longitude)
                           * MetersPerGrid * MetersPerGrid
                         <= geofence.radius * geofence.radius}) <= 1

\* a matcher that honours notify_on_enter: a geofence with the flag off never matches
Within_notifying(latitude, longitude, geofence) ==
    /\ geofence.notify_on_enter
    /\ geofence.radius >= 0
    /\ DistSq(latitude, longitude, geofence.latitude, geofence.longitude)
         * MetersPerGrid * MetersPerGrid <= geofence.radius * geofence.radius

\* distance <= geofence.radius, distance = DistSq ** 0.5 * 111000 >= 0
Within(latitude, longitude, geofence) ==
    /\ geofence.radius >= 0
    /\ DistSq(latitude, longitude, geofence.latitude, geofence.longitude)
         * MetersPerGrid * MetersPerGrid <= geofence.radius * geofence.radius

\* the for loop runs without suspending up to the next geofence that matches:
\* index of the first matching geofence after position i, 0 when the loop ends
NextMatch(snapshot, i, latitude, longitude) ==
    IF \E n \in (i + 1)..Len(snapshot) : Within(latitude, longitude, snapshot[n])
    THEN CHOOSE n \in (i + 1)..Len(snapshot) :
           /\ Within(latitude, longitude, snapshot[n])
           /\ \A m \in (i + 1)..(n - 1) : ~Within(latitude, longitude, snapshot[m])
    ELSE 0

\* an alert message that names the geofence by its kind instead of its label
AlertMessage_kind(teen, geofence) == teen.name \o " entered " \o geofence.type

\* f"{teen['name']} entered {geofence.name}"
AlertMessage(teen, geofence) == teen.name \o " entered " \o geofence.name

\* a push that carries the geofence's kind where its label belongs
PushMessage_kind(teen, geofence) ==
    [type |-> "geofence_alert", teen_name |-> teen.name,
     geofence_name |-> geofence.type, action |-> "entered"]

\* the dict handed to manager.send_personal_message
PushMessage(teen, geofence) ==
    [type |-> "geofence_alert", teen_name |-> teen.name,
     geofence_name |-> geofence.name, action |-> "entered"]

\* ---------------------------------------------------------------- state
IdleIngest ==
    [pc |-> "idle", teen_id |-> 0, latitude |-> 0, longitude |-> 0, teen |-> None,
     location_id |-> 0, geofences |-> <<>>, i |-> 0, status |-> 0, error |-> "none",
     timestamp |-> 0, recorded |-> <<>>, notified |-> <<>>, stored |-> 0,
     distance |-> 0]

\* a create_app_usage call: usage_data is the posted AppUsageCreate, existing the
\* id of the document find_one returned (0 for none), status the "status" of the
\* response (a 404 as "not found")
IdleUsage ==
    [pc |-> "idle", teen_id |-> 0, package_name |-> "", date |-> "", usage_time |-> 0,
     existing |-> 0, status |-> "none", usage_id |-> 0]

NoResponse == [op |-> "none", status |-> 0, parent_id |-> "", id |-> 0, teen_id |-> 0]

Init ==
    /\ teens = RegisteredTeens
    /\ locations = <<>>
    /\ geofences \in {<<>>, Prefill}
    /\ alerts = <<>>
    /\ active_connections = [p \in Parents |-> 0]
    /\ sockets = <<>>
    /\ sends = <<>>
    /\ ingest = [k \in 1..MaxIngests |-> IdleIngest]
    /\ last = NoResponse
    /\ marks = 0
    /\ app_usage = <<>>
    /\ usage = [u \in 1..MaxUsageCalls |-> IdleUsage]

\* ---------------------------------------------------------------- ConnectionManager
\* a registry in which the first connection of a parent keeps the entry
Registered_first(parent_id, ws) ==
    IF active_connections[parent_id] = 0
    THEN [active_connections EXCEPT ![parent_id] = ws]
    ELSE active_connections

\* ConnectionManager.connect: the registry after
\* self.active_connections[parent_id] = websocket
Registered(parent_id, ws) == [active_connections EXCEPT ![parent_id] = ws]

\* websocket_endpoint up to its receive loop: manager.connect(websocket, parent_id)
\* a connect that delivers a queued push: a notification of this parent that found
\* no channel is sent on the new connection
connect_within_replaying(parent_id, limit) ==
    /\ Len(sockets) < limit
    /\ sockets' = Append(sockets, [parent_id |-> parent_id, open |-> TRUE])
    /\ active_connections' = Registered(parent_id, Len(sockets) + 1)
    /\ LET missed == {kj \in (DOMAIN ingest) \X (1..Len(geofences)) :
                        /\ ingest[kj[1]].teen.parent_id = parent_id
                        /\ kj[2] \in DOMAIN ingest[kj[1]].notified
                        /\ ingest[kj[1]].notified[kj[2]].ws = 0}
       IN  IF missed = {} THEN UNCHANGED sends
           ELSE LET kj == CHOOSE x \in missed : TRUE
                    c == ingest[kj[1]]
                IN  sends' = Append(sends,
                        [ws |-> Len(sockets) + 1,
                         text |-> PushMessage(c.teen, c.geofences[c.notified[kj[2]].i]),
                         raised |-> FALSE, by |-> kj[1], fence |-> c.notified[kj[2]].i])
    /\ UNCHANGED <<teens, locations, geofences, alerts, ingest, last, marks,
                   app_usage, usage>>

\* limit bounds the connections a behaviour opens
connect_within(parent_id, limit) ==
    /\ Len(sockets) < limit
    /\ sockets' = Append(sockets, [parent_id |-> parent_id, open |-> TRUE])
    /\ active_connections' = Registered(parent_id, Len(sockets) + 1)
    /\ UNCHANGED <<teens, locations, geofences, alerts, sends, ingest, last, marks,
                   app_usage, usage>>

connect(parent_id) == connect_within(parent_id, MaxConnects)

\* ConnectionManager.disconnect: the registry after del active_connections[parent_id]
Disconnected(parent_id) == [active_connections EXCEPT ![parent_id] = 0]

\* websocket_endpoint: WebSocketDisconnect on connection ws -> manager.disconnect(parent_id)
disconnect(ws) ==
    /\ ws \in DOMAIN sockets
    /\ sockets[ws].open
    /\ sockets' = [sockets EXCEPT ![ws].open = FALSE]
    /\ active_connections' = Disconnected(sockets[ws].parent_id)
    /\ UNCHANGED <<teens, locations, geofences, alerts, sends, ingest, last, marks,
                   app_usage, usage>>

\* a send_personal_message that ignores its parent_id and writes to whichever
\* channel the registry holds
send_personal_message_any_channel(message, parent_id, raised, k, fence) ==
    IF \E q \in Parents : active_connections[q] # 0
    THEN Append(sends, [ws |-> active_connections[CHOOSE q \in Parents :
                                                     active_connections[q] # 0],
                        text |-> message, raised |-> raised, by |-> k,
                        fence |-> fence])
    ELSE sends

\* ConnectionManager.send_personal_message: the send_text calls after the call, when
\* the transport outcome of a send is `raised`; k and fence only label the history
send_personal_message(message, parent_id, raised, k, fence) ==
    IF active_connections[parent_id] # 0
    THEN Append(sends, [ws |-> active_connections[parent_id], text |-> message,
                        raised |-> raised, by |-> k, fence |-> fence])
    ELSE sends

\* ---------------------------------------------------------------- create_location
\* The fields of ingest[k]: pc is the await the call is suspended at; teen_id,
\* latitude, longitude are the posted LocationCreate; teen, location_id, geofences
\* (the to_list snapshot) and i (position in it) are the handler's locals; status is
\* the HTTP status of the response (0 while none).  error, recorded, notified and
\* stored are history: which call raised, which alert was inserted for which snapshot
\* position, what each send_personal_message call found in the registry, and how
\* many geofence documents the store held when the snapshot was read.  distance is
\* the loop's local of that name: the distance to the geofence evaluated last;
\* timestamp is location.timestamp, set when the Location is constructed.

\* datetime.utcnow() when a Location is constructed: the calls that construct one
\* read distinct, increasing instants, counted from 1
utcnow == Cardinality({k \in DOMAIN ingest : ingest[k].timestamp # 0}) + 1

\* the call returns {"status": "success", "location_id": ...}
Returned(c) == [c EXCEPT !.pc = "done", !.status = 200]

\* an exception leaves the handler: the framework answers 500
Raised(c, what) == [c EXCEPT !.pc = "done", !.status = 500, !.error = what]

\* a loop that walks the snapshot from its end: suspend at the last match before
\* position c.i (anywhere when c.i = 0) or return
Advance_reversed(c) ==
    LET before == {n \in DOMAIN c.geofences :
                     /\ c.i = 0 \/ n < c.i
                     /\ Within(c.latitude, c.longitude, c.geofences[n])}
    IN  IF before = {} THEN Returned(c)
        ELSE [c EXCEPT !.pc = "insert_alert",
                       !.i = CHOOSE n \in before : \A m \in before : m <= n]

\* a loop that retries: after the push the same position is recorded and pushed again
AfterSend_retrying(c, failed) ==
    IF failed THEN Raised(c, "send") ELSE [c EXCEPT !.pc = "insert_alert"]

\* the loop moves on from position c.i: suspend at the next match or return
Advance(c) ==
    LET n == NextMatch(c.geofences, c.i, c.latitude, c.longitude)
        e == IF n = 0 THEN Len(c.geofences) ELSE n
        d == IF e > c.i
             THEN [c EXCEPT !.distance = distance(c.latitude, c.longitude,
                                                  c.geofences[e].latitude,
                                                  c.geofences[e].longitude)]
             ELSE c
    IN  IF n = 0 THEN Returned(d) ELSE [d EXCEPT !.pc = "insert_alert", !.i = n]

\* create_location_find_teen without the "if not teen" check
create_location_find_teen_unchecked(k, teen_id, latitude, longitude) ==
    /\ ingest[k].pc = "idle"
    /\ k > 1 => ingest[k - 1].pc # "idle"
    /\ ingest' = [ingest EXCEPT ![k] =
                    [@ EXCEPT !.teen_id = teen_id, !.latitude = latitude,
                              !.longitude = longitude, !.teen = find_one_teen(teen_id),
                              !.timestamp = utcnow, !.pc = "insert_location"]]
    /\ UNCHANGED <<teens, locations, geofences, alerts, active_connections, sockets,
                   sends, last, marks, app_usage, usage>>

\* teen = await db.teens.find_one(...); if not teen: raise HTTPException(404);
\* location = Location(**location_data.dict())
create_location_find_teen(k, teen_id, latitude, longitude) ==
    /\ ingest[k].pc = "idle"
    /\ k > 1 => ingest[k - 1].pc # "idle"
    /\ LET teen == find_one_teen(teen_id)
           c == [ingest[k] EXCEPT !.teen_id = teen_id, !.latitude = latitude,
                                  !.longitude = longitude, !.teen = teen]
       IN  ingest' = [ingest EXCEPT ![k] =
                        IF teen = None
                        THEN [c EXCEPT !.pc = "done", !.status = 404]
                        ELSE [c EXCEPT !.pc = "insert_location",
                                       !.timestamp = utcnow]]
    /\ UNCHANGED <<teens, locations, geofences, alerts, active_connections, sockets,
                   sends, last, marks, app_usage, usage>>

\* a sample write whose storage error is swallowed: the call goes on to the geofences
create_location_insert_location_swallowing(k, ok) ==
    /\ ingest[k].pc = "insert_location"
    /\ IF ok
       THEN /\ locations' = Append(locations,
                    Location(Len(locations) + 1, ingest[k].teen_id,
                             ingest[k].latitude, ingest[k].longitude,
                             ingest[k].timestamp))
            /\ ingest' = [ingest EXCEPT ![k].pc = "find_geofences",
                                        ![k].location_id = Len(locations) + 1]
       ELSE /\ ingest' = [ingest EXCEPT ![k].pc = "find_geofences",
                                        ![k].error = "insert_location"]
            /\ UNCHANGED locations
    /\ UNCHANGED <<teens, geofences, alerts, active_connections, sockets, sends,
                   last, marks, app_usage, usage>>

\* await db.locations.insert_one(location.dict())
create_location_insert_location(k, ok) ==
    /\ ingest[k].pc = "insert_location"
    /\ IF ok
       THEN /\ locations' = Append(locations,
                    Location(Len(locations) + 1, ingest[k].teen_id,
                             ingest[k].latitude, ingest[k].longitude,
                             ingest[k].timestamp))
            /\ ingest' = [ingest EXCEPT ![k].pc = "find_geofences",
                                        ![k].location_id = Len(locations) + 1]
       ELSE /\ ingest' = [ingest EXCEPT ![k] = Raised(@, "insert_location")]
            /\ UNCHANGED locations
    /\ UNCHANGED <<teens, geofences, alerts, active_connections, sockets, sends,
                   last, marks, app_usage, usage>>

\* geofences = await db.geofences.find(...).to_list(100), then the loop up to its
\* first await
create_location_find_geofences(k) ==
    /\ ingest[k].pc = "find_geofences"
    /\ ingest' = [ingest EXCEPT ![k] =
                    Advance([ingest[k] EXCEPT
                                !.geofences = find_geofences(ingest[k].teen_id),
                                !.stored = Len(geofences)])]
    /\ UNCHANGED <<teens, locations, geofences, alerts, active_connections, sockets,
                   sends, last, marks, app_usage, usage>>

\* alert = Alert(parent_id=teen["parent_id"], teen_id=location_data.teen_id, ...)
NewAlert(c, id) ==
    Alert(id, c.teen.parent_id, c.teen_id, "geofence_enter",
          AlertMessage(c.teen, c.geofences[c.i]))

\* an insert that coalesces: no new alert while an unread alert with the same teen
\* and message is stored
create_location_insert_alert_coalescing(k, ok) ==
    /\ ingest[k].pc = "insert_alert"
    /\ IF ok
       THEN LET a == NewAlert(ingest[k], Len(alerts) + 1)
            IN  IF \E n \in DOMAIN alerts :
                      /\ alerts[n].teen_id = a.teen_id
                      /\ alerts[n].message = a.message
                      /\ ~alerts[n].is_read
                THEN /\ ingest' = [ingest EXCEPT ![k].pc = "send"]
                     /\ UNCHANGED alerts
                ELSE /\ alerts' = Append(alerts, a)
                     /\ ingest' = [ingest EXCEPT ![k].pc = "send",
                                     ![k].recorded = Append(@, [i |-> ingest[k].i,
                                                                alert |-> Len(alerts) + 1])]
       ELSE /\ ingest' = [ingest EXCEPT ![k] = Raised(@, "insert_alert")]
            /\ UNCHANGED alerts
    /\ UNCHANGED <<teens, locations, geofences, active_connections, sockets, sends,
                   last, marks, app_usage, usage>>

\* an insert whose storage error is swallowed: the call goes on to notify
create_location_insert_alert_swallowing(k, ok) ==
    /\ ingest[k].pc = "insert_alert"
    /\ IF ok
       THEN /\ alerts' = Append(alerts, NewAlert(ingest[k], Len(alerts) + 1))
            /\ ingest' = [ingest EXCEPT ![k].pc = "send",
                            ![k].recorded = Append(@, [i |-> ingest[k].i,
                                                       alert |-> Len(alerts) + 1])]
       ELSE /\ ingest' = [ingest EXCEPT ![k].pc = "send"]
            /\ UNCHANGED alerts
    /\ UNCHANGED <<teens, locations, geofences, active_connections, sockets, sends,
                   last, marks, app_usage, usage>>

\* await db.alerts.insert_one(alert.dict())
create_location_insert_alert(k, ok) ==
    /\ ingest[k].pc = "insert_alert"
    /\ IF ok
       THEN /\ alerts' = Append(alerts, NewAlert(ingest[k], Len(alerts) + 1))
            /\ ingest' = [ingest EXCEPT ![k].pc = "send",
                            ![k].recorded = Append(@, [i |-> ingest[k].i,
                                                       alert |-> Len(alerts) + 1])]
       ELSE /\ ingest' = [ingest EXCEPT ![k] = Raised(@, "insert_alert")]
            /\ UNCHANGED alerts
    /\ UNCHANGED <<teens, locations, geofences, active_connections, sockets, sends,
                   last, marks, app_usage, usage>>

\* send_personal_message without the "if parent_id in self.active_connections"
\* check: the lookup raises KeyError when the parent has no entry
SendFails_unguarded(ws, raised) == ws = 0 \/ raised

\* send_personal_message raises only out of send_text, which it calls only when the
\* parent has an entry (ws # 0) in the registry
SendFails(ws, raised) == ws # 0 /\ raised

\* what the handler does once send_personal_message has ended, raising or not
AfterSend(c, failed) == IF failed THEN Raised(c, "send") ELSE Advance(c)

\* await manager.send_personal_message({...}, teen["parent_id"]), then the loop up
\* to its next await or the return
create_location_send(k, raised) ==
    /\ ingest[k].pc = "send"
    /\ LET c == ingest[k]
           ws == active_connections[c.teen.parent_id]
           failed == SendFails(ws, raised)
           seen == [c EXCEPT !.notified = Append(@, [i |-> c.i, ws |-> ws,
                                                     raised |-> failed])]
       IN  /\ ws = 0 => ~raised
           /\ sends' = send_personal_message(PushMessage(c.teen, c.geofences[c.i]),
                                             c.teen.parent_id, raised, k, c.i)
           /\ ingest' = [ingest EXCEPT ![k] = AfterSend(seen, failed)]
    /\ UNCHANGED <<teens, locations, geofences, alerts, active_connections, sockets,
                   last, marks, app_usage, usage>>

\* a cancellation that undoes the sample write
create_location_cancel_rollback(k) ==
    /\ ingest[k].pc \in {"insert_location", "find_geofences", "insert_alert", "send"}
    /\ ingest' = [ingest EXCEPT ![k].pc = "done", ![k].error = "cancelled"]
    /\ locations' = IF ingest[k].location_id = 0 THEN locations
                    ELSE [n \in 1..(Len(locations) - 1) |->
                            IF n < ingest[k].location_id THEN locations[n]
                            ELSE locations[n + 1]]
    /\ UNCHANGED <<teens, geofences, alerts, active_connections, sockets,
                   sends, last, marks, app_usage, usage>>

\* the request is cancelled while the handler is suspended at an await
create_location_cancel(k) ==
    /\ ingest[k].pc \in {"insert_location", "find_geofences", "insert_alert", "send"}
    /\ ingest' = [ingest EXCEPT ![k].pc = "done", ![k].error = "cancelled"]
    /\ UNCHANGED <<teens, locations, geofences, alerts, active_connections, sockets,
                   sends, last, marks, app_usage, usage>>

\* ---------------------------------------------------------------- get_teen_locations
\* the documents at the positions S of db.locations, oldest timestamp first
RECURSIVE OldestFirst(_)
OldestFirst(S) ==
    IF S = {} THEN <<>>
    ELSE LET n == CHOOSE n \in S :
                    \A m \in S : \/ locations[n].timestamp < locations[m].timestamp
                                 \/ (locations[m].timestamp = locations[n].timestamp
                                        /\ n <= m)
         IN  <<locations[n]>> \o OldestFirst(S \ {n})

\* .sort("timestamp", -1): the documents at the positions S of db.locations, newest
\* timestamp first (equal timestamps in natural order)
RECURSIVE NewestFirst(_)
NewestFirst(S) ==
    IF S = {} THEN <<>>
    ELSE LET n == CHOOSE n \in S :
                    \A m \in S : \/ locations[m].timestamp < locations[n].timestamp
                                 \/ (locations[m].timestamp = locations[n].timestamp
                                        /\ n <= m)
         IN  <<locations[n]>> \o NewestFirst(S \ {n})

\* db.locations.find({"teen_id": teen_id}).sort("timestamp", -1).limit(limit)
\*   .to_list(limit), for limit >= 1
find_locations(teen_id, limit) ==
    LET all == NewestFirst({n \in DOMAIN locations : locations[n].teen_id = teen_id})
    IN  SubSeq(all, 1, Min(Len(all), limit))

\* GET /teens/{teen_id}/locations?limit=...; seen is history: the number of
\* documents db.locations held when the query ran
get_teen_locations(teen_id, limit, parent_id) ==
    /\ last' = [op |-> "get_teen_locations",
                status |-> IF find_one_teen_of(teen_id, parent_id) = None
                           THEN 404 ELSE 200,
                parent_id |-> parent_id, id |-> 0, teen_id |-> teen_id,
                limit |-> limit, seen |-> Len(locations),
                body |-> IF find_one_teen_of(teen_id, parent_id) = None
                         THEN <<>> ELSE find_locations(teen_id, limit)]
    /\ UNCHANGED <<teens, locations, geofences, alerts, active_connections, sockets,
                   sends, ingest, marks, app_usage, usage>>

\* ---------------------------------------------------------------- create_geofence
Created == IF Len(geofences) >= Len(Prefill) THEN Len(geofences) - Len(Prefill)
           ELSE Len(geofences)

\* POST /geofences
create_geofence(parent_id, body) ==
    /\ Created < MaxNewFences
    /\ IF find_one_teen_of(body.teen_id, parent_id) = None
       THEN /\ last' = [op |-> "create_geofence", status |-> 404,
                        parent_id |-> "", id |-> 0, teen_id |-> 0]
            /\ UNCHANGED geofences
       ELSE /\ geofences' = Append(geofences,
                    Geofence(Len(geofences) + 1, body.teen_id, body.name, body.latitude,
                             body.longitude, body.radius, body.type,
                             body.notify_on_enter, body.notify_on_exit))
            /\ last' = [op |-> "create_geofence", status |-> 200,
                        parent_id |-> parent_id, id |-> Len(geofences) + 1,
                        teen_id |-> body.teen_id]
    /\ UNCHANGED <<teens, locations, alerts, active_connections, sockets, sends,
                   ingest, marks, app_usage, usage>>

\* GET /teens/{teen_id}/geofences; seen is history: the number of documents
\* db.geofences held when the query ran
get_teen_geofences(teen_id, parent_id) ==
    /\ last' = [op |-> "get_teen_geofences",
                status |-> IF find_one_teen_of(teen_id, parent_id) = None
                           THEN 404 ELSE 200,
                parent_id |-> parent_id, id |-> 0, teen_id |-> teen_id,
                seen |-> Len(geofences),
                body |-> IF find_one_teen_of(teen_id, parent_id) = None
                         THEN <<>> ELSE find_geofences(teen_id)]
    /\ UNCHANGED <<teens, locations, geofences, alerts, active_connections, sockets,
                   sends, ingest, marks, app_usage, usage>>

\* ---------------------------------------------------------------- create_app_usage
\* AppUsage(**usage_data.dict())
AppUsage(id, teen_id, package_name, date, usage_time) ==
    [id |-> id, teen_id |-> teen_id, package_name |-> package_name, date |-> date,
     usage_time |-> usage_time]

\* the filter {"teen_id": ..., "package_name": ..., "date": ...}
SameKey(r, c) ==
    r.teen_id = c.teen_id /\ r.package_name = c.package_name /\ r.date = c.date

\* db.app_usage.find_one({...}): the id of the first document with the key of call
\* c, 0 when there is none
find_one_usage(c) ==
    IF \E n \in DOMAIN app_usage : SameKey(app_usage[n], c)
    THEN app_usage[CHOOSE n \in DOMAIN app_usage :
                     /\ SameKey(app_usage[n], c)
                     /\ \A m \in DOMAIN app_usage : SameKey(app_usage[m], c) => n <= m].id
    ELSE 0

\* teen = await db.teens.find_one({"id": usage_data.teen_id}); if not teen: 404
create_app_usage_find_teen(u, teen_id, package_name, date, usage_time) ==
    /\ usage[u].pc = "idle"
    /\ u > 1 => usage[u - 1].pc # "idle"
    /\ LET c == [usage[u] EXCEPT !.teen_id = teen_id, !.package_name = package_name,
                                 !.date = date, !.usage_time = usage_time]
       IN  usage' = [usage EXCEPT ![u] =
                       IF find_one_teen(teen_id) = None
                       THEN [c EXCEPT !.pc = "done", !.status = "not found"]
                       ELSE [c EXCEPT !.pc = "find_existing"]]
    /\ UNCHANGED <<teens, locations, geofences, alerts, active_connections, sockets,
                   sends, ingest, last, marks, app_usage>>

\* existing_usage = await db.app_usage.find_one({...}); if existing_usage: ... else: ...
create_app_usage_find_existing(u) ==
    /\ usage[u].pc = "find_existing"
    /\ usage' = [usage EXCEPT ![u].existing = find_one_usage(usage[u]),
                              ![u].pc = IF find_one_usage(usage[u]) # 0
                                        THEN "update" ELSE "insert"]
    /\ UNCHANGED <<teens, locations, geofences, alerts, active_connections, sockets,
                   sends, ingest, last, marks, app_usage>>

\* await db.app_usage.update_one({"id": existing_usage["id"]}, {"$set": {...}});
\* return {"status": "updated", "usage_id": existing_usage["id"]}
create_app_usage_update(u) ==
    /\ usage[u].pc = "update"
    /\ app_usage' = [n \in DOMAIN app_usage |->
                       IF app_usage[n].id = usage[u].existing
                       THEN [app_usage[n] EXCEPT !.usage_time = usage[u].usage_time]
                       ELSE app_usage[n]]
    /\ usage' = [usage EXCEPT ![u].pc = "done", ![u].status = "updated",
                              ![u].usage_id = usage[u].existing]
    /\ UNCHANGED <<teens, locations, geofences, alerts, active_connections, sockets,
                   sends, ingest, last, marks>>

\* usage = AppUsage(**usage_data.dict()); await db.app_usage.insert_one(usage.dict());
\* return {"status": "created", "usage_id": usage.id}
create_app_usage_insert(u) ==
    /\ usage[u].pc = "insert"
    /\ app_usage' = Append(app_usage,
                           AppUsage(Len(app_usage) + 1, usage[u].teen_id,
                                    usage[u].package_name, usage[u].date,
                                    usage[u].usage_time))
    /\ usage' = [usage EXCEPT ![u].pc = "done", ![u].status = "created",
                              ![u].usage_id = Len(app_usage) + 1]
    /\ UNCHANGED <<teens, locations, geofences, alerts, active_connections, sockets,
                   sends, ingest, last, marks>>

\* a filter on the alert id alone, without the caller's parent id
Matches_any_parent(a, alert_id, parent_id) == a.id = alert_id

\* ---------------------------------------------------------------- mark_alert_read
\* the filter {"id": alert_id, "parent_id": parent_id}
Matches(a, alert_id, parent_id) == a.id = alert_id /\ a.parent_id = parent_id

\* result.modified_count of update_one(filter, {"$set": {"is_read": True}}): the
\* number of documents the update changed
modified_count(alert_id, parent_id) ==
    IF \E n \in DOMAIN alerts :
          Matches(alerts[n], alert_id, parent_id) /\ ~alerts[n].is_read
    THEN 1 ELSE 0

\* an update that flips the flag instead of setting it
mark_alert_read_toggling(alert_id, parent_id) ==
    /\ marks < MaxMarks
    /\ marks' = marks + 1
    /\ alerts' = [n \in DOMAIN alerts |->
                    IF Matches(alerts[n], alert_id, parent_id)
                    THEN [alerts[n] EXCEPT !.is_read = ~@] ELSE alerts[n]]
    /\ last' = [op |-> "mark_alert_read",
                status |-> IF modified_count(alert_id, parent_id) = 0 THEN 404 ELSE 200,
                parent_id |-> parent_id, id |-> alert_id, teen_id |-> 0]
    /\ UNCHANGED <<teens, locations, geofences, active_connections, sockets, sends,
                   ingest, app_usage, usage>>

\* PUT /alerts/{alert_id}/read
mark_alert_read(alert_id, parent_id) ==
    /\ marks < MaxMarks
    /\ marks' = marks + 1
    /\ alerts' = [n \in DOMAIN alerts |->
                    IF Matches(alerts[n], alert_id, parent_id)
                    THEN [alerts[n] EXCEPT !.is_read = TRUE] ELSE alerts[n]]
    /\ last' = [op |-> "mark_alert_read",
                status |-> IF modified_count(alert_id, parent_id) = 0 THEN 404 ELSE 200,
                parent_id |-> parent_id, id |-> alert_id, teen_id |-> 0]
    /\ UNCHANGED <<teens, locations, geofences, active_connections, sockets, sends,
                   ingest, app_usage, usage>>

\* ---------------------------------------------------------------- specifications
\* the create_location calls; Writes and Sends are the outcomes the store writes and
\* the channel sends may have (ok: the write succeeds; raised: the send raises)
IngestStart ==
    \E k \in 1..MaxIngests, t \in TeenIdInputs, pt \in Points :
        create_location_find_teen(k, t, pt[1], pt[2])

IngestSteps(Writes, Sends) ==
    \/ \E k \in 1..MaxIngests, ok \in Writes : create_location_insert_location(k, ok)
    \/ \E k \in 1..MaxIngests : create_location_find_geofences(k)
    \/ \E k \in 1..MaxIngests, ok \in Writes : create_location_insert_alert(k, ok)
    \/ \E k \in 1..MaxIngests, raised \in Sends : create_location_send(k, raised)

Geofences ==
    \E p \in Parents, t \in TeenIdInputs, b \in GeofenceInputs :
        create_geofence(p, b @@ [teen_id |-> t])

Channels ==
    \/ \E p \in Parents : connect(p)
    \/ \E ws \in 1..MaxConnects : disconnect(ws)

InitEmpty == Init /\ geofences = <<>>
InitLimit == Init /\ geofences = Prefill

\* ingest with every outcome of its writes and sends, geofence edits and channels
Next ==
    \/ IngestStart
    \/ IngestSteps(BOOLEAN, BOOLEAN)
    \/ Geofences
    \/ Channels

Spec == InitEmpty /\ [][Next]_vars

\* no ingest is in flight
Quiet == \A k \in 1..MaxIngests : ingest[k].pc \in {"idle", "done"}

\* failure-free ingests, one at a time, and the parents reading their alerts
NextRead ==
    \/ Quiet /\ IngestStart
    \/ IngestSteps({TRUE}, {FALSE})
    \/ Geofences
    \/ \E p \in Parents, a \in 1..(Len(alerts) + 1) : mark_alert_read(a, p)

SpecRead == InitEmpty /\ [][NextRead]_vars

\* failure-free ingests for a teen that has ListLimit - 1 geofences already
NextLimit ==
    \/ IngestStart
    \/ IngestSteps({TRUE}, {FALSE})
    \/ Geofences

SpecLimit == InitLimit /\ [][NextLimit]_vars

\* radius values a GeofenceCreate body may carry: `radius: float` has no constraint
Radii == {-50, 0, 50}

\* POST /geofences with the bodies of GeofenceInputs at each of these radii
GeofencesAnyRadius ==
    \E p \in Parents, t \in TeenIdInputs, b \in GeofenceInputs, r \in Radii :
        create_geofence(p, [b EXCEPT !.radius = r] @@ [teen_id |-> t])

\* failure-free ingests and geofences of any accepted radius
NextRadius ==
    \/ IngestStart
    \/ IngestSteps({TRUE}, {FALSE})
    \/ GeofencesAnyRadius

SpecRadius == InitEmpty /\ [][NextRadius]_vars

\* the state after construction when the geofences of fences were created earlier
InitWith(fences) ==
    /\ teens = RegisteredTeens
    /\ locations = <<>>
    /\ geofences = fences
    /\ alerts = <<>>
    /\ active_connections = [p \in Parents |-> 0]
    /\ sockets = <<>>
    /\ sends = <<>>
    /\ ingest = [k \in 1..MaxIngests |-> IdleIngest]
    /\ last = NoResponse
    /\ marks = 0
    /\ app_usage = <<>>
    /\ usage = [u \in 1..MaxUsageCalls |-> IdleUsage]

\* coordinates for the distance computation, in grid steps
Coordinates == {<<0, 0>>, <<1, 0>>, <<-2, 1>>, <<3, -4>>}

\* each registered teen has one geofence, created earlier around some coordinate
InitDistance ==
    \E a \in Coordinates, b \in Coordinates :
        InitWith(<<Geofence(1, 1, "Home", a[1], a[2], 111, "safe", TRUE, TRUE),
                   Geofence(2, 2, "Home", b[1], b[2], 111, "safe", TRUE, TRUE)>>)

\* create_location calls with samples at the coordinates of S
IngestStartAt(S) ==
    \E k \in 1..MaxIngests, t \in TeenIdInputs, pt \in S :
        create_location_find_teen(k, t, pt[1], pt[2])

\* failure-free ingests that compute the distance between any two coordinates
NextDistance ==
    \/ IngestStartAt(Coordinates)
    \/ IngestSteps({TRUE}, {FALSE})

SpecDistance == InitDistance /\ [][NextDistance]_vars

\* each registered teen has a geofence around the origin
InitChannels ==
    InitWith(<<Geofence(1, 1, "Home", 0, 0, 111, "safe", TRUE, TRUE),
               Geofence(2, 2, "Home", 0, 0, 111, "safe", TRUE, TRUE)>>)

\* parents connect, reconnect and disconnect while ingests at the origin push to them
NextChannels ==
    \/ \E p \in Parents : connect_within(p, MaxChannels)
    \/ \E ws \in DOMAIN sockets : disconnect(ws)
    \/ IngestStartAt({<<0, 0>>})
    \/ IngestSteps({TRUE}, BOOLEAN)

SpecChannels == InitChannels /\ [][NextChannels]_vars

\* teen 1 has two geofences: both contain (1, 0), the first alone contains (0, 0)
InitCancel ==
    InitWith(<<Geofence(1, 1, "Home", 0, 0, 111, "safe", TRUE, TRUE),
               Geofence(2, 1, "Mall", 1, 0, 50, "restricted", FALSE, FALSE)>>)

\* ingests that may fail at a write or a send, or be cancelled at any await
NextCancel ==
    \/ IngestStart
    \/ IngestSteps(BOOLEAN, BOOLEAN)
    \/ Channels
    \/ \E k \in 1..MaxIngests : create_location_cancel(k)

SpecCancel == InitCancel /\ [][NextCancel]_vars

\* one teen with four geofences of one name, centre and radius that differ in
\* type, notify_on_enter and notify_on_exit
InitFlags ==
    InitWith(<<Geofence(1, 1, "Home", 0, 0, 50, "safe", TRUE, TRUE),
               Geofence(2, 1, "Home", 0, 0, 50, "restricted", TRUE, TRUE),
               Geofence(3, 1, "Home", 0, 0, 50, "safe", FALSE, TRUE),
               Geofence(4, 1, "Home", 0, 0, 50, "restricted", TRUE, FALSE)>>)

\* failure-free ingests inside and outside the four geofences, one at a time, and
\* channels
NextFlags ==
    \/ Quiet /\ IngestStart
    \/ IngestSteps({TRUE}, {FALSE})
    \/ Channels

SpecFlags == InitFlags /\ [][NextFlags]_vars

\* the limit query parameter: one row, or the default
LimitInputs == {1, DefaultLimit}

\* failure-free ingests while the parents list the samples of any teen id
NextLocations ==
    \/ IngestStart
    \/ IngestSteps({TRUE}, {FALSE})
    \/ \E p \in Parents, t \in TeenIdInputs, limit \in LimitInputs :
          get_teen_locations(t, limit, p)

SpecLocations == InitChannels /\ [][NextLocations]_vars

\* geofence creation, listing and ingests one at a time for a teen that has
\* ListLimit - 1 geofences already
NextFences ==
    \/ Quiet /\ IngestStart
    \/ IngestSteps({TRUE}, {FALSE})
    \/ Geofences
    \/ \E p \in Parents, t \in TeenIdInputs : get_teen_geofences(t, p)

SpecFences == InitLimit /\ [][NextFences]_vars

\* the app of the posted reports, their dates and their minutes
Packages == {"com.instagram.android"}
Dates == {"2025-01-01", "2025-01-02"}
UsageTimes == {45, 60}

\* devices report app usage, calls overlapping at every await
NextUsage ==
    \/ \E u \in 1..MaxUsageCalls, t \in TeenIdInputs, pk \in Packages, d \in Dates,
          m \in UsageTimes : create_app_usage_find_teen(u, t, pk, d, m)
    \/ \E u \in 1..MaxUsageCalls : create_app_usage_find_existing(u)
    \/ \E u \in 1..MaxUsageCalls : create_app_usage_update(u)
    \/ \E u \in 1..MaxUsageCalls : create_app_usage_insert(u)

SpecUsage == InitEmpty /\ [][NextUsage]_vars

\* a step of call k in which the awaited store operation or send completes
Completes(k) ==
    \/ create_location_insert_location(k, TRUE)
    \/ create_location_find_geofences(k)
    \/ create_location_insert_alert(k, TRUE)
    \/ create_location_send(k, FALSE)

\* ingests and channels; every awaited operation completes
NextLive ==
    \/ IngestStart
    \/ \E k \in 1..MaxIngests : Completes(k)
    \/ Channels

\* the event loop resumes a handler once the operation it awaits has completed
SpecLive ==
    InitCancel /\ [][NextLive]_vars /\ WF_vars(\E k \in 1..MaxIngests : Completes(k))

\* ---------------------------------------------------------------- properties
Done(k) == ingest[k].pc = "done"

\* the snapshot positions of call k whose geofence contains the sample
Matched(k) ==
    {n \in DOMAIN ingest[k].geofences :
        Within(ingest[k].latitude, ingest[k].longitude, ingest[k].geofences[n])}

RecordedAt(k) == {ingest[k].recorded[j].i : j \in DOMAIN ingest[k].recorded}
NotifiedAt(k) == {ingest[k].notified[j].i : j \in DOMAIN ingest[k].notified}
SendsBy(k) == {n \in DOMAIN sends : sends[n].by = k}
KnownTeen(teen_id) == \E n \in DOMAIN teens : teens[n].id = teen_id

\* C1: a create_location call for a teen id that no teen document has answers 404,
\* and the step that answers it changes no store, no registry entry and sends
\* nothing; the call has then ended, with no sample, no alert and no push of its own.
C1_UnknownSubjectRejected ==
    /\ [][\A k \in 1..MaxIngests :
            (ingest[k].pc = "idle" /\ ingest'[k].pc # "idle"
                /\ ~KnownTeen(ingest'[k].teen_id))
            => /\ ingest'[k].status = 404
               /\ ingest'[k].pc = "done"
               /\ UNCHANGED <<teens, locations, geofences, alerts, active_connections,
                              sockets, sends>>]_vars
    /\ [](\A k \in 1..MaxIngests :
            (ingest[k].pc # "idle" /\ ~KnownTeen(ingest[k].teen_id))
            => /\ Done(k) /\ ingest[k].status = 404
               /\ ingest[k].location_id = 0
               /\ ingest[k].recorded = <<>> /\ ingest[k].notified = <<>>
               /\ SendsBy(k) = {}
               /\ \A n \in DOMAIN locations : locations[n].teen_id # ingest[k].teen_id
               /\ \A n \in DOMAIN alerts : alerts[n].teen_id # ingest[k].teen_id)

C1_Witness ==
    \E k \in 1..MaxIngests :
        /\ Done(k) /\ ingest[k].teen_id = UnknownTeen /\ ingest[k].status = 404
        /\ locations # <<>> /\ alerts # <<>>

\* C2: an ingest whose sample write succeeded answers 200 with the sample's id even
\* when a later alert write raised a storage error.
C2_AlertWriteFailureSwallowed ==
    \A k \in 1..MaxIngests :
        (Done(k) /\ ingest[k].location_id # 0 /\ ingest[k].error = "insert_alert")
        => ingest[k].status = 200

\* C3: an ingest during which send_text raised on the parent's registered channel
\* still answers 200: the notifier swallowed the transport error.
C3_SendFailureSwallowed ==
    \A k \in 1..MaxIngests :
        (Done(k) /\ \E j \in DOMAIN ingest[k].notified : ingest[k].notified[j].raised)
        => ingest[k].status = 200

\* C4: an ingest whose writes succeeded, whose snapshot holds a geofence containing
\* the sample and whose notifications all found no registry entry for the owning
\* parent has ended with 200, has recorded one stored alert for every matched
\* geofence, and has sent nothing.
C4_NoChannelStillRecords ==
    \A k \in 1..MaxIngests :
        (/\ Done(k) /\ ingest[k].location_id # 0 /\ ingest[k].error # "insert_alert"
         /\ Matched(k) # {}
         /\ \A j \in DOMAIN ingest[k].notified : ingest[k].notified[j].ws = 0)
        => /\ ingest[k].status = 200
           /\ ingest[k].error = "none"
           /\ RecordedAt(k) = Matched(k)
           /\ NotifiedAt(k) = Matched(k)
           /\ SendsBy(k) = {}
           /\ \A j \in DOMAIN ingest[k].recorded :
                 /\ ingest[k].recorded[j].alert \in DOMAIN alerts
                 /\ alerts[ingest[k].recorded[j].alert].teen_id = ingest[k].teen_id

C4_Witness ==
    \E k \in 1..MaxIngests :
        /\ Done(k) /\ ingest[k].status = 200
        /\ Cardinality(Matched(k)) = 2
        /\ Len(ingest[k].notified) = 2
        /\ \A j \in DOMAIN ingest[k].notified : ingest[k].notified[j].ws = 0
        /\ active_connections[ingest[k].teen.parent_id] = 0

\* C5: when the alert write or the push of one matched geofence failed, every later
\* matched geofence of the snapshot has still been recorded and notified.
C5_FailureDoesNotStopLoop ==
    \A k \in 1..MaxIngests :
        (Done(k) /\ ingest[k].error \in {"insert_alert", "send"})
        => \A n \in Matched(k) :
              n > ingest[k].i => (n \in RecordedAt(k) /\ n \in NotifiedAt(k))

\* C6: a mark_alert_read call by the owning parent on an alert that exists answers
\* 200 and leaves the alert read, also when the alert was read already.
C6_MarkReadAlwaysSucceeds ==
    (last.op = "mark_alert_read"
        /\ \E n \in DOMAIN alerts : Matches(alerts[n], last.id, last.parent_id))
    => /\ last.status = 200
       /\ \A n \in DOMAIN alerts :
             Matches(alerts[n], last.id, last.parent_id) => alerts[n].is_read

\* every call made so far has ended without a failure (200, or 404 for no teen)
AllFailureFree ==
    \A k \in 1..MaxIngests :
        ingest[k].pc = "idle" \/ (Done(k) /\ ingest[k].status \in {200, 404})

FenceNames == {b.name : b \in GeofenceInputs}

\* the stored alerts of teen t that name a geofence called name
AlertsFor(t, name) ==
    {n \in DOMAIN alerts :
        /\ alerts[n].teen_id = t
        /\ alerts[n].message = find_one_teen(t).name \o " entered " \o name}

\* the (call, snapshot position) pairs of the ended calls for teen t whose sample
\* lies in a geofence called name
MatchesFor(t, name) ==
    UNION {{<<k, n>> : n \in {m \in Matched(k) : ingest[k].geofences[m].name = name}} :
           k \in {j \in 1..MaxIngests :
                     Done(j) /\ ingest[j].status = 200 /\ ingest[j].teen_id = t}}

\* C7: no alert is suppressed or coalesced.  A call that ended with 200 has inserted
\* exactly one alert for each geofence of its snapshot that contains its sample, all
\* stored alerts have distinct ids, and when all calls were failure-free the store
\* holds, for every teen and geofence, as many alerts as there were (call, matched
\* geofence) pairs, whatever the interleaving: N alerts after N ingests inside F.
C7_OneAlertPerMatchPerIngest ==
    /\ \A k \in 1..MaxIngests :
          (Done(k) /\ ingest[k].status = 200)
          => /\ RecordedAt(k) = Matched(k)
             /\ Len(ingest[k].recorded) = Cardinality(Matched(k))
    /\ \A n, m \in DOMAIN alerts : n # m => alerts[n].id # alerts[m].id
    /\ AllFailureFree =>
          \A t \in TeenIdInputs, name \in FenceNames :
              Cardinality(AlertsFor(t, name)) = Cardinality(MatchesFor(t, name))

\* two overlapping ingests for one teen inside the same geofence: the later call
\* wrote its alert first, and the store holds both
C7_Witness ==
    /\ AllFailureFree
    /\ \A k \in 1..MaxIngests : Done(k) /\ ingest[k].status = 200 /\ ingest[k].teen_id = 1
    /\ \A k \in 1..MaxIngests : Len(ingest[k].geofences) = 1 /\ Matched(k) = {1}
    /\ ingest[2].recorded[1].alert < ingest[1].recorded[1].alert
    /\ Cardinality(AlertsFor(1, "Home")) = MaxIngests

\* C8: every alert inserted by a create_location call for teen S carries the parent
\* that owns S, the id of S, the type "geofence_enter", is_read = FALSE and the
\* message "<S.name> entered <fence.name>" of the geofence it was inserted for; the
\* store holds no other alert, so every alert's parent owns the alert's teen.
C8_AlertFields ==
    /\ \A k \in 1..MaxIngests : \A j \in DOMAIN ingest[k].recorded :
          LET r == ingest[k].recorded[j]
              a == alerts[r.alert]
              S == find_one_teen(ingest[k].teen_id)
          IN  /\ r.alert \in DOMAIN alerts
              /\ KnownTeen(ingest[k].teen_id)
              /\ a.parent_id = S.parent_id
              /\ a.teen_id = S.id
              /\ a.type = "geofence_enter"
              /\ a.is_read = FALSE
              /\ a.message = S.name \o " entered " \o ingest[k].geofences[r.i].name
    /\ \A n \in DOMAIN alerts :
          /\ \E k \in 1..MaxIngests : \E j \in DOMAIN ingest[k].recorded :
                ingest[k].recorded[j].alert = n
          /\ KnownTeen(alerts[n].teen_id)
          /\ find_one_teen(alerts[n].teen_id).parent_id = alerts[n].parent_id

C8_Witness ==
    \E n, m \in DOMAIN alerts :
        /\ alerts[n].parent_id = "p1" /\ alerts[n].message = "Ann entered Mall"
        /\ alerts[m].parent_id = "p2" /\ alerts[m].message = "Bob entered Home"

\* the notifications of call k that found a registered channel
Pushed(k) == {j \in DOMAIN ingest[k].notified : ingest[k].notified[j].ws # 0}

C10_EveryStoredFenceAlerted ==
    \A k \in 1..MaxIngests :
        (Done(k) /\ ingest[k].status = 200)
        => \A n \in 1..ingest[k].stored :
              (geofences[n].teen_id = ingest[k].teen_id
                  /\ geofences[n].radius >= 0
                  /\ DistSq(ingest[k].latitude, ingest[k].longitude,
                            geofences[n].latitude, geofences[n].longitude)
                       * MetersPerGrid * MetersPerGrid
                     <= geofences[n].radius * geofences[n].radius)
              => \E j \in DOMAIN ingest[k].recorded :
                    ingest[k].geofences[ingest[k].recorded[j].i].id = geofences[n].id

\* the geofence documents call k inserted an alert for, called the notifier for, and
\* made a send for
AlertedFences(k) == {ingest[k].geofences[n] : n \in RecordedAt(k)}
NotifiedFences(k) == {ingest[k].geofences[n] : n \in NotifiedAt(k)}
SentFences(k) == {ingest[k].geofences[sends[n].fence] : n \in SendsBy(k)}

\* C11: every geofence a create_location call has inserted an alert for, called the
\* notifier for or sent a push for is a stored geofence of the sample's teen whose
\* centre lies no farther from the sample than its radius: sqrt(dlat^2 + dlon^2) *
\* 111000 <= radius.  No alert exists that no call inserted for such a geofence.
C11_OnlyOwnFencesInRange ==
    /\ \A k \in 1..MaxIngests :
          /\ RecordedAt(k) \cup NotifiedAt(k) \subseteq DOMAIN ingest[k].geofences
          /\ \A n \in SendsBy(k) : sends[n].fence \in DOMAIN ingest[k].geofences
          /\ \A g \in AlertedFences(k) \cup NotifiedFences(k) \cup SentFences(k) :
                /\ \E n \in DOMAIN geofences : geofences[n] = g
                /\ g.teen_id = ingest[k].teen_id
                /\ g.radius >= 0
                /\ ((ingest[k].latitude - g.latitude) * (ingest[k].latitude - g.latitude)
                    + (ingest[k].longitude - g.longitude)
                        * (ingest[k].longitude - g.longitude))
                     * MetersPerGrid * MetersPerGrid <= g.radius * g.radius
    /\ \A a \in DOMAIN alerts :
          \E k \in 1..MaxIngests : \E j \in DOMAIN ingest[k].recorded :
              ingest[k].recorded[j].alert = a

\* one call passed over a geofence of its teen that is out of range while alerting
\* for the one in range; another call, for another teen, stood at the centre of a
\* geofence that is not its teen's and alerted nothing
C11_Witness ==
    \E k, j \in 1..MaxIngests :
        /\ Done(k) /\ ingest[k].status = 200
        /\ Len(ingest[k].geofences) = 2 /\ Len(ingest[k].recorded) = 1
        /\ Len(ingest[k].notified) = 1
        /\ Done(j) /\ ingest[j].status = 200 /\ ingest[j].teen_id # ingest[k].teen_id
        /\ ingest[j].stored = 2 /\ ingest[j].recorded = <<>>
        /\ \E n \in DOMAIN geofences :
              /\ geofences[n].latitude = ingest[j].latitude
              /\ geofences[n].longitude = ingest[j].longitude

\* C12: a call that ended with 200 has inserted an alert for every geofence of its
\* snapshot whose centre is the sample's coordinate, whatever radius the geofence
\* was created with.
C12_CenterSampleAlerted ==
    \A k \in 1..MaxIngests :
        (Done(k) /\ ingest[k].status = 200)
        => \A n \in DOMAIN ingest[k].geofences :
              (ingest[k].geofences[n].latitude = ingest[k].latitude
                  /\ ingest[k].geofences[n].longitude = ingest[k].longitude)
              => n \in RecordedAt(k)

\* call k has computed `distance` for a geofence of its snapshot
Evaluated(k) ==
    ingest[k].pc \in {"insert_alert", "send", "done"} /\ ingest[k].geofences # <<>>

\* the snapshot position of the geofence call k computed `distance` for last
EvaluatedLast(k) ==
    IF ingest[k].pc \in {"insert_alert", "send"} THEN ingest[k].i
    ELSE Len(ingest[k].geofences)

Centre(k) ==
    <<ingest[k].geofences[EvaluatedLast(k)].latitude,
      ingest[k].geofences[EvaluatedLast(k)].longitude>>

Sample(k) == <<ingest[k].latitude, ingest[k].longitude>>

\* C13: the distance a call computed between its sample and a geofence centre is
\* never negative, is zero when the sample is the centre, and equals the distance
\* another call computed with sample and centre exchanged.
C13_DistanceSymmetric ==
    \A k \in 1..MaxIngests :
        Evaluated(k)
        => /\ ingest[k].distance >= 0
           /\ Sample(k) = Centre(k) => ingest[k].distance = 0
           /\ \A j \in 1..MaxIngests :
                 (Evaluated(j) /\ Sample(j) = Centre(k) /\ Centre(j) = Sample(k))
                 => ingest[j].distance = ingest[k].distance

\* two calls computed the same positive distance in opposite directions
C13_Witness ==
    \E k, j \in 1..MaxIngests :
        /\ Evaluated(k) /\ Evaluated(j) /\ k # j
        /\ Sample(j) = Centre(k) /\ Centre(j) = Sample(k)
        /\ Sample(k) = <<3, -4>> /\ Centre(k) = <<0, 0>>
        /\ ingest[k].distance = 555

\* the connection of parent p that connected last, 0 when p never connected
LastConnect(p) ==
    IF \E ws \in DOMAIN sockets : sockets[ws].parent_id = p
    THEN CHOOSE ws \in DOMAIN sockets :
           /\ sockets[ws].parent_id = p
           /\ \A other \in DOMAIN sockets : sockets[other].parent_id = p => other <= ws
    ELSE 0

\* C14: the registry holds for each parent no entry or one connection; an entry is
\* the connection of that parent that connected last, and it is open.  A step in
\* which a connection of parent q is accepted or ends changes no entry but q's, and
\* a step with neither (a send, an ingest step) changes no entry.
C14_LastConnectWins ==
    /\ [](\A p \in Parents :
            /\ active_connections[p] \in 0..Len(sockets)
            /\ active_connections[p] # 0
               => /\ active_connections[p] = LastConnect(p)
                  /\ sockets[active_connections[p]].parent_id = p
                  /\ sockets[active_connections[p]].open)
    /\ [][\A p \in Parents :
            active_connections'[p] # active_connections[p]
            => \/ /\ Len(sockets') = Len(sockets) + 1
                  /\ sockets'[Len(sockets')].parent_id = p
               \/ \E ws \in DOMAIN sockets :
                     /\ sockets[ws].parent_id = p
                     /\ sockets[ws].open /\ ~sockets'[ws].open]_vars

\* a parent reconnected while its earlier connection is still open, the other
\* parent is connected too, and a push went out on the newer connection
C14_Witness ==
    /\ Len(sockets) = 3
    /\ \E p \in Parents, q \in Parents :
          /\ p # q
          /\ sockets[1].parent_id = p /\ sockets[1].open
          /\ sockets[2].parent_id = p /\ active_connections[p] = 2
          /\ active_connections[q] = 3
          /\ \E n \in DOMAIN sends : sends[n].ws = 2

\* the stored alert call k recorded for snapshot position n: its parent is the
\* teen's parent and its message names the teen and the geofence at n
StoredAlertFor(k, n) ==
    \E j \in DOMAIN ingest[k].recorded :
        /\ ingest[k].recorded[j].i = n
        /\ ingest[k].recorded[j].alert \in DOMAIN alerts
        /\ alerts[ingest[k].recorded[j].alert].parent_id = ingest[k].teen.parent_id
        /\ alerts[ingest[k].recorded[j].alert].teen_id = ingest[k].teen_id
        /\ alerts[ingest[k].recorded[j].alert].message =
             ingest[k].teen.name \o " entered " \o ingest[k].geofences[n].name

\* C15: in the step in which a call hands a matched geofence to the notifier, the
\* alert for that call and geofence is in the alert store already; and at any time
\* every notification made so far, delivered, failed or without a channel, and
\* every send has its alert stored under the teen's parent.
C15_RecordedBeforeNotified ==
    /\ [][\A k \in 1..MaxIngests :
            Len(ingest'[k].notified) > Len(ingest[k].notified)
            => /\ ingest[k].pc = "send"
               /\ ingest'[k].notified[Len(ingest'[k].notified)].i = ingest[k].i
               /\ StoredAlertFor(k, ingest[k].i)]_vars
    /\ [](\A k \in 1..MaxIngests :
            /\ \A n \in NotifiedAt(k) : StoredAlertFor(k, n)
            /\ \A n \in SendsBy(k) : StoredAlertFor(k, sends[n].fence))

\* one call notified twice: the first time the parent had no channel (missed), the
\* second time the push went out; both alerts are in the store
C15_Witness ==
    \E k \in 1..MaxIngests :
        /\ Len(ingest[k].notified) = 2
        /\ ingest[k].notified[1].ws = 0
        /\ ingest[k].notified[2].ws # 0
        /\ Cardinality(SendsBy(k)) = 1
        /\ Len(ingest[k].recorded) = 2
        /\ \A n \in NotifiedAt(k) : StoredAlertFor(k, n)

\* the sends call k made for snapshot position n
SendsFor(k, n) == {m \in SendsBy(k) : sends[m].fence = n}

\* C16: a call hands each matched geofence to the notifier at most once, and at
\* most one send is ever made for it: one on the channel registered at that step,
\* none when no channel was registered then, however the parent connects later.
\* The send history grows only in a notifying step, by one send to the channel
\* registered in that step; a step that accepts a connection sends nothing.
C16_AtMostOnce ==
    /\ [](\A k \in 1..MaxIngests :
            /\ Cardinality(NotifiedAt(k)) = Len(ingest[k].notified)
            /\ \A n \in DOMAIN ingest[k].geofences :
                  /\ Cardinality(SendsFor(k, n)) <= 1
                  /\ SendsFor(k, n) # {} => n \in NotifiedAt(k)
            /\ \A j \in DOMAIN ingest[k].notified :
                  /\ ingest[k].notified[j].ws = 0 => SendsFor(k, ingest[k].notified[j].i) = {}
                  /\ \A m \in SendsFor(k, ingest[k].notified[j].i) :
                        sends[m].ws = ingest[k].notified[j].ws)
    /\ [](\A m \in DOMAIN sends : sends[m].by \in 1..MaxIngests)
    /\ [][sends' # sends
            => /\ sockets' = sockets
               /\ Len(sends') = Len(sends) + 1
               /\ SubSeq(sends', 1, Len(sends)) = sends
               /\ \E k \in 1..MaxIngests :
                     /\ ingest[k].pc = "send"
                     /\ Len(ingest'[k].notified) = Len(ingest[k].notified) + 1
                     /\ sends'[Len(sends')].by = k
                     /\ sends'[Len(sends')].fence = ingest[k].i
                     /\ sends'[Len(sends')].ws = active_connections[ingest[k].teen.parent_id]
                     /\ active_connections[ingest[k].teen.parent_id] # 0]_vars

\* a call's notification found no channel; its parent connected afterwards, and
\* reconnected, and nothing was sent for that alert
C16_Witness ==
    \E k \in 1..MaxIngests :
        /\ Done(k) /\ Len(ingest[k].notified) = 1 /\ ingest[k].notified[1].ws = 0
        /\ Len(ingest[k].recorded) = 1
        /\ SendsBy(k) = {}
        /\ Len(sockets) >= 2
        /\ \A ws \in DOMAIN sockets : sockets[ws].parent_id = ingest[k].teen.parent_id
        /\ active_connections[ingest[k].teen.parent_id] = Len(sockets)

\* C17: no step removes or reorders a stored alert, none changes the id, parent,
\* teen, type or message of a stored alert, and none turns is_read from TRUE back to
\* FALSE: the alert store only grows at its end and flags only go from unread to
\* read.
C17_AlertsAppendOnly ==
    [][/\ Len(alerts') >= Len(alerts)
       /\ \A n \in DOMAIN alerts :
             /\ [alerts'[n] EXCEPT !.is_read = FALSE] = [alerts[n] EXCEPT !.is_read = FALSE]
             /\ alerts[n].is_read => alerts'[n].is_read]_vars

\* an alert was marked read, a later ingest appended another alert behind it, and
\* the read alert was marked again
C17_Witness ==
    /\ Len(alerts) >= 2
    /\ alerts[1].is_read /\ ~alerts[2].is_read
    /\ marks = 2
    /\ last.op = "mark_alert_read" /\ last.id = 1 /\ last.status = 404

\* C18: no step removes or changes a stored sample; the sample a call persisted is
\* in the location store with the posted coordinates whether the call went on,
\* returned, failed or was cancelled; and at any time the alerts a call has recorded
\* are, in order, the first of the geofences of its snapshot that contain the
\* sample, each one stored: a prefix of what the complete loop records.
C18_SampleKeptAlertsPrefix ==
    /\ [][/\ Len(locations') >= Len(locations)
          /\ \A n \in DOMAIN locations : locations'[n] = locations[n]]_vars
    /\ [](\A k \in 1..MaxIngests :
            /\ ingest[k].location_id # 0
               => /\ ingest[k].location_id \in DOMAIN locations
                  /\ locations[ingest[k].location_id] =
                       [id |-> ingest[k].location_id, teen_id |-> ingest[k].teen_id,
                        latitude |-> ingest[k].latitude,
                        longitude |-> ingest[k].longitude,
                        timestamp |-> ingest[k].timestamp]
            /\ Len(ingest[k].recorded) <= Cardinality(Matched(k))
            /\ \A j \in DOMAIN ingest[k].recorded :
                  /\ ingest[k].recorded[j].i \in Matched(k)
                  /\ Cardinality({n \in Matched(k) : n <= ingest[k].recorded[j].i}) = j
                  /\ ingest[k].recorded[j].alert \in DOMAIN alerts
                  /\ alerts[ingest[k].recorded[j].alert].message =
                       ingest[k].teen.name \o " entered "
                         \o ingest[k].geofences[ingest[k].recorded[j].i].name)

\* one call was cancelled after the first of its two matching geofences was
\* recorded, another failed at its alert write; both samples are stored
C18_Witness ==
    \E k, j \in 1..MaxIngests :
        /\ Done(k) /\ ingest[k].error = "cancelled"
        /\ Cardinality(Matched(k)) = 2 /\ Len(ingest[k].recorded) = 1
        /\ ingest[k].location_id \in DOMAIN locations
        /\ Done(j) /\ ingest[j].error = "insert_alert" /\ ingest[j].status = 500
        /\ ingest[j].location_id \in DOMAIN locations
        /\ ingest[j].location_id # ingest[k].location_id

\* the positions of db.locations that held a sample of teen t when the last
\* get_teen_locations query ran
SeenOf(t) == {n \in 1..last.seen : locations[n].teen_id = t}

\* C19: a get_teen_locations response for teen T to a parent that does not own T
\* (or for an id no teen has) is 404 with no samples.  To the owning parent it is
\* 200 with min(limit, number of T's stored samples) distinct stored samples of T
\* and of no other teen, newest timestamp first, none of them older than a sample
\* left out; so when T has at most `limit` samples every sample persisted by an
\* ingest for T before the query, successful ingests included, is in the response.
C19_OwnerListsSamples ==
    last.op = "get_teen_locations"
    => IF \E n \in DOMAIN teens :
             teens[n].id = last.teen_id /\ teens[n].parent_id = last.parent_id
       THEN /\ last.status = 200
            /\ Len(last.body) = IF Cardinality(SeenOf(last.teen_id)) <= last.limit
                                THEN Cardinality(SeenOf(last.teen_id)) ELSE last.limit
            /\ \A j \in DOMAIN last.body :
                  /\ \E n \in SeenOf(last.teen_id) : locations[n] = last.body[j]
                  /\ \A i \in DOMAIN last.body :
                        i < j => /\ last.body[i].timestamp >= last.body[j].timestamp
                                 /\ last.body[i].id # last.body[j].id
                  /\ \A n \in SeenOf(last.teen_id) :
                        (\A i \in DOMAIN last.body : last.body[i] # locations[n])
                        => locations[n].timestamp <= last.body[j].timestamp
            /\ \A k \in 1..MaxIngests :
                  (/\ ingest[k].teen_id = last.teen_id
                   /\ ingest[k].location_id \in 1..last.seen
                   /\ Cardinality(SeenOf(last.teen_id)) <= last.limit)
                  => \E j \in DOMAIN last.body : last.body[j].id = ingest[k].location_id
       ELSE last.status = 404 /\ last.body = <<>>

\* two successful ingests for one teen whose samples were stored in the opposite
\* order of their timestamps, listed newest first to the owner
C19_Witness ==
    /\ last.op = "get_teen_locations" /\ last.status = 200
    /\ Len(last.body) = 2
    /\ last.body[1].timestamp > last.body[2].timestamp
    /\ last.body[1].id < last.body[2].id
    /\ \A k \in 1..MaxIngests :
          Done(k) /\ ingest[k].status = 200 /\ ingest[k].teen_id = last.teen_id

\* C20: a step that changes the geofence store appends one geofence whose teen
\* exists and is owned by the parent of the request, which is answered 200; a
\* create_geofence answered 404 leaves the store as it was.  Every geofence of a
\* teen that the store held when get_teen_geofences ran for that teen is in its
\* response to the owner, and every geofence of a call's teen that the store held
\* when the call read its geofences is in the snapshot the call evaluates.
C20_StoredFenceListedAndEvaluated ==
    /\ [][/\ geofences' # geofences
             => /\ Len(geofences') = Len(geofences) + 1
                /\ SubSeq(geofences', 1, Len(geofences)) = geofences
                /\ last'.op = "create_geofence" /\ last'.status = 200
                /\ last'.teen_id = geofences'[Len(geofences')].teen_id
                /\ \E n \in DOMAIN teens :
                      /\ teens[n].id = geofences'[Len(geofences')].teen_id
                      /\ teens[n].parent_id = last'.parent_id
          /\ (last' # last /\ last'.op = "create_geofence" /\ last'.status # 200)
             => last'.status = 404 /\ geofences' = geofences]_vars
    /\ []((last.op = "get_teen_geofences" /\ last.status = 200)
            => \A n \in 1..last.seen :
                  geofences[n].teen_id = last.teen_id
                  => \E j \in DOMAIN last.body : last.body[j] = geofences[n])
    /\ [](\A k \in 1..MaxIngests : \A n \in 1..ingest[k].stored :
            geofences[n].teen_id = ingest[k].teen_id
            => \E j \in DOMAIN ingest[k].geofences : ingest[k].geofences[j] = geofences[n])

\* C21: the usage store holds at most one document per (teen_id, package_name,
\* date); of the calls answered for one key at most one was answered "created";
\* and a call answered "updated" has, in the step that answers it, set usage_time
\* of the one document with its key to the posted value.
C21_UsageUpsert ==
    /\ [](\A n, m \in DOMAIN app_usage :
            SameKey(app_usage[n], app_usage[m]) => n = m)
    /\ [](\A u, v \in 1..MaxUsageCalls :
            (usage[u].status = "created" /\ usage[v].status = "created"
                /\ SameKey(usage[u], usage[v])) => u = v)
    /\ [][\A u \in 1..MaxUsageCalls :
            (usage[u].status # "updated" /\ usage'[u].status = "updated")
            => \A n \in DOMAIN app_usage' :
                  SameKey(app_usage'[n], usage[u])
                  => app_usage'[n].usage_time = usage[u].usage_time]_vars

\* C22: the snapshot positions a call has recorded, and those it has notified,
\* increase; its alerts lie in the alert store, and its sends in the send history,
\* in that same order; the call has notified exactly the positions it recorded,
\* but for the last one while its push is pending; and the step that writes an
\* alert finds every alert the call wrote earlier already notified.
C22_SnapshotOrder ==
    /\ [](\A k \in 1..MaxIngests :
            LET r == ingest[k].recorded
                t == ingest[k].notified
            IN  /\ \A a, b \in DOMAIN r :
                      a < b => r[a].i < r[b].i /\ r[a].alert < r[b].alert
                /\ \A a, b \in DOMAIN t : a < b => t[a].i < t[b].i
                /\ \A a, b \in SendsBy(k) : a < b => sends[a].fence < sends[b].fence
                /\ Len(t) <= Len(r) /\ Len(r) <= Len(t) + 1
                /\ \A a \in DOMAIN t : t[a].i = r[a].i
                /\ Len(r) = Len(t) + 1 => ingest[k].pc \in {"send", "done"})
    /\ [][\A k \in 1..MaxIngests :
            Len(ingest'[k].recorded) > Len(ingest[k].recorded)
            => /\ Len(ingest[k].notified) = Len(ingest[k].recorded)
               /\ Len(alerts') = Len(alerts) + 1
               /\ ingest'[k].recorded[Len(ingest'[k].recorded)].alert = Len(alerts')]_vars

\* a call recorded and pushed for two geofences while another call's alert was
\* written between its two
C22_Witness ==
    \E k \in 1..MaxIngests :
        /\ Done(k) /\ ingest[k].status = 200
        /\ Len(ingest[k].recorded) = 2 /\ Len(ingest[k].notified) = 2
        /\ Cardinality(SendsBy(k)) = 2
        /\ ingest[k].recorded[2].alert > ingest[k].recorded[1].alert + 1

\* C23: a call reads its geofences after its sample is stored; the snapshot holds
\* only geofences the store held at that moment, so a geofence created later gets
\* no alert and no push from the call; and every geofence of the call's teen that the
\* store held at that moment is in the snapshot, and has its alert once the call
\* has ended with 200 if its circle contains the sample.
C23_PointInTimeSnapshot ==
    \A k \in 1..MaxIngests :
        /\ (ingest[k].stored > 0 \/ ingest[k].geofences # <<>>)
           => ingest[k].location_id \in DOMAIN locations
        /\ \A j \in DOMAIN ingest[k].geofences :
              \E n \in 1..ingest[k].stored : geofences[n] = ingest[k].geofences[j]
        /\ \A n \in (ingest[k].stored + 1)..Len(geofences) :
              /\ \A j \in DOMAIN ingest[k].recorded :
                    ingest[k].geofences[ingest[k].recorded[j].i].id # geofences[n].id
              /\ \A m \in SendsBy(k) :
                    ingest[k].geofences[sends[m].fence].id # geofences[n].id
        /\ \A n \in 1..ingest[k].stored :
              geofences[n].teen_id = ingest[k].teen_id
              => \E j \in DOMAIN ingest[k].geofences :
                    /\ ingest[k].geofences[j] = geofences[n]
                    /\ (Done(k) /\ ingest[k].status = 200 /\ j \in Matched(k))
                       => j \in RecordedAt(k)

\* the snapshot positions of call k whose circle contains the sample of call k:
\* sqrt(dlat^2 + dlon^2) * 111000 <= radius
InsideOf(k) ==
    {n \in DOMAIN ingest[k].geofences :
        LET g == ingest[k].geofences[n]
        IN  /\ g.radius >= 0
            /\ ((ingest[k].latitude - g.latitude) * (ingest[k].latitude - g.latitude)
                + (ingest[k].longitude - g.longitude) * (ingest[k].longitude - g.longitude))
                 * MetersPerGrid * MetersPerGrid <= g.radius * g.radius}

\* C24: every stored alert has type "geofence_enter" and every send has action
\* "entered"; a call that ended with 200 has recorded and notified exactly the
\* geofences of its snapshot that contain its own sample, whatever samples were
\* stored before: none when the sample is outside all of them, all of them again
\* when an earlier sample was inside already.
C24_StatelessEnterOnly ==
    /\ \A n \in DOMAIN alerts : alerts[n].type = "geofence_enter"
    /\ \A n \in DOMAIN sends : sends[n].text.action = "entered"
    /\ \A k \in 1..MaxIngests :
          /\ RecordedAt(k) \cup NotifiedAt(k) \subseteq InsideOf(k)
          /\ (Done(k) /\ ingest[k].status = 200)
             => /\ RecordedAt(k) = InsideOf(k)
                /\ NotifiedAt(k) = InsideOf(k)
          /\ (Done(k) /\ ingest[k].location_id # 0 /\ InsideOf(k) = {})
             => /\ ingest[k].status = 200
                /\ ingest[k].recorded = <<>> /\ SendsBy(k) = {}

\* a teen's sample inside a geofence raised an alert; the teen's next sample,
\* evaluated against the same geofences and outside them, raised none
C24_Witness ==
    \E k, j \in 1..MaxIngests :
        /\ Done(k) /\ ingest[k].status = 200 /\ Len(ingest[k].recorded) = 1
        /\ Done(j) /\ ingest[j].status = 200 /\ ingest[j].teen_id = ingest[k].teen_id
        /\ ingest[j].geofences = ingest[k].geofences
        /\ ingest[k].location_id # 0 /\ ingest[k].location_id < ingest[j].location_id
        /\ ingest[k].timestamp < ingest[j].timestamp
        /\ InsideOf(j) = {} /\ ingest[j].recorded = <<>>
        /\ Len(alerts) = 1

\* C25: a call whose sample write raised has ended with 500 in that very step,
\* which wrote nothing and sent nothing; the call stored no sample, read no
\* geofences, recorded no alert and called the notifier for none.
C25_SampleWriteFailureStops ==
    /\ [](\A k \in 1..MaxIngests :
            ingest[k].error = "insert_location"
            => /\ Done(k) /\ ingest[k].status = 500
               /\ ingest[k].location_id = 0
               /\ \A n \in DOMAIN locations :
                     locations[n].timestamp # ingest[k].timestamp
               /\ ingest[k].geofences = <<>> /\ ingest[k].stored = 0
               /\ ingest[k].recorded = <<>> /\ ingest[k].notified = <<>>
               /\ SendsBy(k) = {})
    /\ [][\A k \in 1..MaxIngests :
            (ingest[k].error # "insert_location" /\ ingest'[k].error = "insert_location")
            => /\ ingest[k].pc = "insert_location"
               /\ UNCHANGED <<locations, geofences, alerts, sends, active_connections>>]_vars

\* the sample write failed for a teen standing at the centre of one of its
\* geofences while its parent was connected
C25_Witness ==
    \E k \in 1..MaxIngests :
        /\ Done(k) /\ ingest[k].error = "insert_location" /\ ingest[k].status = 500
        /\ active_connections[ingest[k].teen.parent_id] # 0
        /\ \E n \in DOMAIN geofences :
              /\ geofences[n].teen_id = ingest[k].teen_id
              /\ geofences[n].latitude = ingest[k].latitude
              /\ geofences[n].longitude = ingest[k].longitude
        /\ alerts = <<>> /\ sends = <<>>

\* the stored samples that call k constructed
SamplesOf(k) ==
    {n \in DOMAIN locations : locations[n].timestamp = ingest[k].timestamp}

\* C26: when every awaited operation completes, from some point on no call is in
\* flight: every call that started has ended, and one for a teen that exists has
\* ended answering 200 with the id of its sample.  At any time a call has written
\* at most one sample, and at most one alert and one notification per geofence of
\* its snapshot, each position at most once; once ended with 200 it has written
\* exactly one sample.
C26_IngestTerminates ==
    /\ <>[]Quiet
    /\ [](\A k \in 1..MaxIngests :
            /\ (Done(k) /\ KnownTeen(ingest[k].teen_id))
               => ingest[k].status = 200 /\ ingest[k].location_id \in DOMAIN locations
            /\ ingest[k].pc # "idle" => Cardinality(SamplesOf(k)) <= 1
            /\ Len(ingest[k].recorded) <= Len(ingest[k].geofences)
            /\ Len(ingest[k].notified) <= Len(ingest[k].geofences)
            /\ Cardinality(RecordedAt(k)) = Len(ingest[k].recorded)
            /\ Cardinality(NotifiedAt(k)) = Len(ingest[k].notified)
            /\ Cardinality(SendsBy(k)) <= Len(ingest[k].geofences)
            /\ (Done(k) /\ ingest[k].status = 200)
               => SamplesOf(k) = {ingest[k].location_id})

\* a call for a teen with two geofences around the sample has ended with 200 after
\* two alerts and two pushes
C26_Witness ==
    \E k \in 1..MaxIngests :
        /\ Done(k) /\ ingest[k].status = 200
        /\ SamplesOf(k) = {ingest[k].location_id}
        /\ Len(ingest[k].geofences) = 2
        /\ Len(ingest[k].recorded) = 2 /\ Cardinality(SendsBy(k)) = 2

\* C27: when a connection that a reconnect of the same parent has superseded ends,
\* the registry is left as it was: a connection's end removes an entry only when
\* the entry is that connection.  So the open connection of a parent that connected
\* last stays registered.
C27_SupersededDisconnectKeepsNewer ==
    /\ [][\A ws \in DOMAIN sockets :
            (/\ sockets[ws].open /\ ~sockets'[ws].open
             /\ active_connections[sockets[ws].parent_id] # ws)
            => active_connections' = active_connections]_vars
    /\ [](\A p \in Parents :
            (LastConnect(p) # 0 /\ sockets[LastConnect(p)].open)
            => active_connections[p] = LastConnect(p))

\* the parent id stored with the teen that call k posted a sample for
OwnerOf(k) ==
    LET t == CHOOSE t \in DOMAIN teens : teens[t].id = ingest[k].teen_id
    IN  teens[t].parent_id

\* C28: every message an ingest sent went out on a connection opened under the id
\* of the parent who owns the teen of that ingest; the step that sends it takes the
\* connection from that parent's registry entry, and adds nothing to what any
\* connection of another parent has received.
C28_PushOnlyToOwner ==
    /\ [](\A n \in DOMAIN sends :
            /\ sends[n].ws \in DOMAIN sockets
            /\ sockets[sends[n].ws].parent_id = OwnerOf(sends[n].by))
    /\ [][\A n \in DOMAIN sends' :
            n \notin DOMAIN sends
            => /\ sends'[n].ws = active_connections[OwnerOf(sends'[n].by)]
               /\ \A q \in Parents \ {OwnerOf(sends'[n].by)} :
                     active_connections[q] # sends'[n].ws]_vars

\* both parents are connected and an ingest for a teen of each has pushed
C28_Witness ==
    /\ \A p \in Parents : active_connections[p] # 0
    /\ \E n, m \in DOMAIN sends :
          /\ OwnerOf(sends[n].by) # OwnerOf(sends[m].by)
          /\ sockets[sends[n].ws].parent_id = OwnerOf(sends[n].by)
          /\ sockets[sends[m].ws].parent_id = OwnerOf(sends[m].by)

\* two geofence documents that agree in everything but id, type and the two
\* notify flags
DifferInFlagsOnly(g, h) ==
    /\ g.teen_id = h.teen_id /\ g.name = h.name
    /\ g.latitude = h.latitude /\ g.longitude = h.longitude
    /\ g.radius = h.radius

\* the stored alerts call k recorded for snapshot position n, without their ids
AlertsOf(k, n) ==
    {[teen_id |-> alerts[a].teen_id, parent_id |-> alerts[a].parent_id,
      type |-> alerts[a].type, message |-> alerts[a].message, is_read |-> FALSE] :
        a \in {ingest[k].recorded[j].alert :
                 j \in {j \in DOMAIN ingest[k].recorded : ingest[k].recorded[j].i = n}}}

\* C29: in a call that ended with 200, two geofences of the snapshot that differ
\* only in type, notify_on_enter and notify_on_exit are treated alike: an alert
\* was recorded for both or for neither, with the same content; the push was
\* attempted for both or for neither, and what was sent for them has one text.
C29_FlagsIgnored ==
    \A k \in 1..MaxIngests :
        (Done(k) /\ ingest[k].status = 200)
        => \A n, m \in DOMAIN ingest[k].geofences :
              DifferInFlagsOnly(ingest[k].geofences[n], ingest[k].geofences[m])
              => /\ n \in RecordedAt(k) <=> m \in RecordedAt(k)
                 /\ AlertsOf(k, n) = AlertsOf(k, m)
                 /\ n \in NotifiedAt(k) <=> m \in NotifiedAt(k)
                 /\ \A x \in SendsFor(k, n), y \in SendsFor(k, m) :
                       sends[x].text = sends[y].text

\* a call inside four geofences that differ only in these fields alerted and
\* pushed for each of them, and another call outside them for none
C29_Witness ==
    \E k, j \in 1..MaxIngests :
        /\ Done(k) /\ ingest[k].status = 200
        /\ \E n, m \in RecordedAt(k) :
              /\ ingest[k].geofences[n].type # ingest[k].geofences[m].type
              /\ SendsFor(k, n) # {} /\ SendsFor(k, m) # {}
        /\ \E n, m \in RecordedAt(k) :
              ingest[k].geofences[n].notify_on_enter
                # ingest[k].geofences[m].notify_on_enter
        /\ \E n, m \in RecordedAt(k) :
              ingest[k].geofences[n].notify_on_exit
                # ingest[k].geofences[m].notify_on_exit
        /\ Done(j) /\ ingest[j].status = 200
        /\ Len(ingest[j].geofences) = 4 /\ RecordedAt(j) = {}

\* the alerts the filter of a mark_alert_read call with this id by this parent
\* addresses
Addressed(alert_id, parent_id) ==
    {n \in DOMAIN alerts :
        alerts[n].id = alert_id /\ alerts[n].parent_id = parent_id}

\* C30: a mark_alert_read step whose caller owns no alert of the given id (the id
\* is unknown, or the alert is another parent's) answers 404 and leaves every
\* alert as it was; a step that answers 200 sets is_read of the one alert of that
\* id and parent, which was unread, and leaves all other alerts and all other
\* fields as they were.
C30_MarkReadFrame ==
    [][marks' # marks
       => /\ last'.op = "mark_alert_read"
          /\ Addressed(last'.id, last'.parent_id) = {}
             => last'.status = 404 /\ alerts' = alerts
          /\ last'.status = 200
             => \E n \in Addressed(last'.id, last'.parent_id) :
                   /\ Addressed(last'.id, last'.parent_id) = {n}
                   /\ ~alerts[n].is_read
                   /\ alerts' = [alerts EXCEPT ![n].is_read = TRUE]
          /\ last'.status \in {200, 404}]_vars

\* one alert was marked read by its owner, and the last call, by a parent who does
\* not own the alert it names, got 404 and left that alert unread
C30_Witness ==
    /\ last.op = "mark_alert_read" /\ last.status = 404
    /\ \E n \in DOMAIN alerts :
          /\ alerts[n].id = last.id
          /\ alerts[n].parent_id # last.parent_id
          /\ ~alerts[n].is_read
    /\ \E m \in DOMAIN alerts : alerts[m].is_read /\ alerts[m].id # last.id
    /\ marks = 2

====
